---- MODULE Spec2Model ----
(***************************************************************************)
(* Model of spider-downloader's pooled downloader,                         *)
(* ReqwestClientDownloader (src/src/reqwest_client.rs): concurrent         *)
(* download calls sharing one RwLock-protected host client table, the     *)
(* per-request proxy override, the send and the response normalisation.   *)
(*                                                                         *)
(* Each call is a process whose pc names the await point or statement it   *)
(* is at.  The transport (reqwest) is the environment: what a send or a    *)
(* body read yields is a nondeterministic choice among the outcomes its    *)
(* types allow.                                                            *)
(***************************************************************************)
EXTENDS Integers, Sequences, FiniteSets, TLC

\* ------------------------------------------------------------------ bounds

\* Number of download calls that may run concurrently on one instance.
NumCalls == 2

Calls == 1..NumCalls

\* ------------------------------------------------------------ value domains

None == "none"

\* The host keys of the request URLs used (reqwest_client.rs:74); "" is the
\* key of a URL without a host.
Hosts == {"a.test", "b.test", ""}

\* serde_json::Value, as far as download inspects it (as_str, line 81).
JsonString(s) == [type |-> "string", val |-> s]
JsonNumber(n) == [type |-> "number", val |-> n]

\* Value::as_str (reqwest_client.rs:81): Some(s) for a string, None otherwise.
AsStr(v) == IF v.type = "string" THEN v.val ELSE None

GoodProxy == "http://proxy.test:8080"
BadProxy == "::not-a-proxy-url"

\* Request::meta with no entry.
NoMeta == [k \in {} |-> None]

\* A Url: host is what Url::host_str() yields, None for a URL without one.
Url(h, p) == [host |-> h, path |-> p]

\* A Request: url and meta (method, headers and body do not decide control
\* flow in download).
Request(h, m) == [url |-> Url(h, "/a"), meta |-> m]

\* The requests submitted: without metadata; with a string under "proxy"
\* that is a proxy URL, and one that is none; to another host, with a value
\* under "proxy" that is no string; with a URL that has no host.
Requests ==
    { Request("a.test", NoMeta),
      Request("a.test", [proxy |-> JsonString(GoodProxy)]),
      Request("a.test", [proxy |-> JsonString(BadProxy)]),
      Request("b.test", [proxy |-> JsonNumber("7")]),
      Request(None, NoMeta) }

NoRequest == [url |-> Url(None, None), meta |-> NoMeta]

\* reqwest::Client handles.  A clone shares the pool, so a handle is
\* identified by the construction that made it.
DefaultClient == [kind |-> "default", by |-> 0]
HostClient(c) == [kind |-> "host", by |-> c]
ProxyClient(c) == [kind |-> "proxy", by |-> c]
NoClient == [kind |-> "none", by |-> 0]

\* Proxy::all(proxy_str) (reqwest_client.rs:83): Ok for a URL it can parse.
ProxyAll(s) == IF s = GoodProxy THEN "Ok" ELSE "Err"

\* What Client::builder()...build() can yield at line 88 (environment).
BuildOutcomes == {"Ok", "Err"}

\* What req_builder.send().await can yield at line 114 (environment).  The
\* status of a reqwest Response is an http::StatusCode, which the transport
\* only constructs from a three-digit value in range: a status line outside
\* the range makes the send itself fail.
SendOutcomes ==
    { [io |-> "connect_err", status |-> 0, path |-> None],
      [io |-> "bad_status", status |-> 99, path |-> None],
      [io |-> "headers", status |-> 404, path |-> "/a"],
      [io |-> "headers", status |-> 200, path |-> "/b"] }

\* A URL without a host has a scheme other than http and https, which the
\* client refuses: its send fails.
SendOutcomesFor(url) ==
    IF url.host = None
    THEN { o \in SendOutcomes : o.io = "connect_err" }
    ELSE SendOutcomes

\* What res.bytes().await can yield at line 119 (environment).
BodyOutcomes == {"body_ok", "body_err"}

\* SpiderError kinds.  Lines 89 and 93 wrap a reqwest error in ReqwestError;
\* the `?` at lines 114 and 119 converts a reqwest::Error by the same From
\* conversion, whatever the call site.
FromReqwestError == "ReqwestError"

NoResult == [kind |-> "none"]
Ok(resp) == [kind |-> "Ok", response |-> resp]
Err(e) == [kind |-> "Err", error |-> e]

\* SpiderError::IoError (traits.rs line 44).
IoError == "IoError"

\* What to_stream_response can give (traits.rs lines 41-43).
ConvOutcomes == {"Ok", "Err"}

\* Ok(StreamResponse) made from a buffered Response (traits.rs lines 41-43).
OkStream(resp) == [kind |-> "Stream", response |-> resp]

\* No download_stream call has been made for a call.
NoStream == [state |-> "none", downloads |-> 0, conv |-> None, result |-> NoResult]

NoRes == [url |-> Url(None, None), status |-> 0]

\* ------------------------------------------------------------------- state

VARIABLES
    host_clients,   \* self.host_clients: HashMap<String, Client> (line 45)
    readers,        \* calls holding a read guard of the RwLock
    writer,         \* the call holding the write guard, 0 when free
    pc,             \* per call: the statement or await point it is at
    request,        \* per call: the Request it was given
    host_specific_client, \* per call: the local of line 167
    client_to_use,  \* per call: the local of line 78
    res,            \* per call: the reqwest Response of line 114
    result,         \* per call: what download returned
    net,            \* per call: the last thing the transport did for it
    sent_with,      \* per call: the client its send went through
    sends,          \* per call: number of sends performed
    entry_at_start, \* per call: whether its host had an entry when it began
    built,          \* every client constructed so far
    retained,       \* every (host, client) pair ever inserted (line 182)
    stream          \* per call: the download_stream call that made it, if any

vars ==
    << host_clients, readers, writer, pc, request, host_specific_client,
       client_to_use, res, result, net, sent_with, sends, entry_at_start,
       built, retained, stream >>

lockVars == << readers, writer >>
tableVars == << host_clients, retained >>
netVars == << res, net, sent_with, sends >>

\* new_with_timeout (lines 140-155): the default client is built, the table
\* is empty, the lock is free; no call has started.
Init ==
    /\ host_clients = [h \in {} |-> NoClient]
    /\ readers = {}
    /\ writer = 0
    /\ pc = [c \in Calls |-> "idle"]
    /\ request = [c \in Calls |-> NoRequest]
    /\ host_specific_client = [c \in Calls |-> NoClient]
    /\ client_to_use = [c \in Calls |-> NoClient]
    /\ res = [c \in Calls |-> NoRes]
    /\ result = [c \in Calls |-> NoResult]
    /\ net = [c \in Calls |-> None]
    /\ sent_with = [c \in Calls |-> NoClient]
    /\ sends = [c \in Calls |-> 0]
    /\ entry_at_start = [c \in Calls |-> FALSE]
    /\ built = {DefaultClient}
    /\ retained = {}
    /\ stream = [c \in Calls |-> NoStream]

\* ----------------------------------------------------------------- helpers

\* Variant of HostStr: a URL without a host gets no key of its own kind but
\* one per path.
HostStr_PerUrl(url) == IF url.host = None THEN url.path ELSE url.host

\* url.host_str().unwrap_or("").to_string() (line 74).
HostStr(url) == IF url.host = None THEN "" ELSE url.host

\* The host key of call c (line 74).
HostOf(c) == HostStr(request[c].url)

\* HashMap::get (lines 161, 179).
Get(table, h) == IF h \in DOMAIN table THEN table[h] ELSE NoClient

\* Variant of Insert: the table is replaced by one holding the new entry only.
Insert_Replacing(table, h, client) == [k \in {h} |-> client]

\* Variant of Insert: nothing is stored.
Insert_Dropped(table, h, client) == table

\* HashMap::insert (line 182): the value under an existing key is replaced.
Insert(table, h, client) ==
    [k \in DOMAIN table \cup {h} |-> IF k = h THEN client ELSE table[k]]

\* The locals of a call are dropped when download returns.
Return(c, r) ==
    /\ result' = [result EXCEPT ![c] = r]
    /\ pc' = [pc EXCEPT ![c] = "done"]
    /\ client_to_use' = [client_to_use EXCEPT ![c] = NoClient]
    /\ host_specific_client' = [host_specific_client EXCEPT ![c] = NoClient]

\* ----------------------------------------------------------------- actions

\* download is called with request r (lines 57-77).  Calls are numbered in
\* the order they begin.
StartDownload(c, r) ==
    /\ pc[c] = "idle"
    /\ \A d \in Calls : d < c => pc[d] # "idle"
    /\ request' = [request EXCEPT ![c] = r]
    /\ entry_at_start' = [entry_at_start EXCEPT ![c] = HostStr(r.url) \in DOMAIN host_clients]
    /\ pc' = [pc EXCEPT ![c] = "read_wait"]
    /\ UNCHANGED << tableVars, lockVars, netVars, host_specific_client,
                    client_to_use, result, built >>

\* self.host_clients.read().await completes (line 160).  tokio's RwLock
\* queues waiters; letting a reader in whenever no writer holds the lock
\* allows every order the queue allows, and more.
AcquireRead(c) ==
    /\ pc[c] = "read_wait"
    /\ writer = 0
    /\ readers' = readers \cup {c}
    /\ pc' = [pc EXCEPT ![c] = "read_held"]
    /\ UNCHANGED << stream, tableVars, writer, netVars, request, host_specific_client,
                    client_to_use, result, entry_at_start, built >>

\* Variant of ReleaseRead: the read guard outlives the lookup.
ReleaseRead_Held(c) == readers

\* The read guard is dropped at the end of its block (line 164).
ReleaseRead(c) == readers \ {c}

\* Variant of ReadLookup: the stored client is not found.
ReadLookup_AlwaysMiss(c) == NoClient

\* Variant of ReadLookup: a miss yields self.client instead of a construction.
ReadLookup_DefaultOnMiss(c) ==
    IF HostOf(c) \in DOMAIN host_clients
    THEN host_clients[HostOf(c)]
    ELSE DefaultClient

\* clients.get(host) under the read guard (line 161).
ReadLookup(c) == Get(host_clients, HostOf(c))

\* The lookup under the read guard and the guard's release (lines 159-164):
\* on a hit get_or_create_host_client returns the stored client.
LookupHost(c) ==
    /\ pc[c] = "read_held"
    /\ LET found == ReadLookup(c) IN
        IF found # NoClient
        THEN /\ client_to_use' = [client_to_use EXCEPT ![c] = found]
             /\ pc' = [pc EXCEPT ![c] = "resolved"]
        ELSE /\ pc' = [pc EXCEPT ![c] = "build"]
             /\ UNCHANGED client_to_use
    /\ readers' = ReleaseRead(c)
    /\ UNCHANGED << stream, tableVars, writer, netVars, request, host_specific_client,
                    result, entry_at_start, built >>

\* Client::builder()...build().unwrap() for the host (lines 167-174), after
\* the read guard is gone and before the write guard is asked for.  The same
\* builder configuration was built and unwrapped at construction (line 148).
BuildHostClient(c) ==
    /\ pc[c] = "build"
    /\ host_specific_client' = [host_specific_client EXCEPT ![c] = HostClient(c)]
    /\ built' = built \cup {HostClient(c)}
    /\ pc' = [pc EXCEPT ![c] = "write_wait"]
    /\ UNCHANGED << stream, tableVars, lockVars, netVars, request, client_to_use,
                    result, entry_at_start >>

\* self.host_clients.write().await completes (line 177).
AcquireWrite(c) ==
    /\ pc[c] = "write_wait"
    /\ writer = 0
    /\ readers = {}
    /\ writer' = c
    /\ pc' = [pc EXCEPT ![c] = "write_held"]
    /\ UNCHANGED << stream, tableVars, readers, netVars, request, host_specific_client,
                    client_to_use, result, entry_at_start, built >>

\* Variant of ReleaseWrite: the write guard outlives get_or_create_host_client.
ReleaseWrite_Held(c) == writer

\* The write guard is dropped at the end of its block (line 183).
ReleaseWrite(c) == 0

\* Variant of Recheck: no second look before the insertion.
Recheck_Skipped(c) == NoClient

\* clients.get(host) under the write guard (line 179).
Recheck(c) == Get(host_clients, HostOf(c))

\* Variant of ExistingOnRecheck: the caller keeps the client it built.
ExistingOnRecheck_OwnClient(c, existing) == host_specific_client[c]

\* What get_or_create_host_client returns when the re-check finds the key
\* (line 180): the stored client; the one just built is dropped.
ExistingOnRecheck(c, existing) == existing

\* The re-check under the write guard, the insertion, the guard's release and
\* the return of get_or_create_host_client (lines 176-185).
DoubleCheckInsert(c) ==
    /\ pc[c] = "write_held"
    /\ LET existing == Recheck(c) IN
        IF existing # NoClient
        THEN /\ client_to_use' = [client_to_use EXCEPT ![c] = ExistingOnRecheck(c, existing)]
             /\ UNCHANGED tableVars
        ELSE /\ host_clients' = Insert(host_clients, HostOf(c), host_specific_client[c])
             /\ retained' = retained \cup {<< HostOf(c), host_specific_client[c] >>}
             /\ client_to_use' = [client_to_use EXCEPT ![c] = host_specific_client[c]]
    /\ writer' = ReleaseWrite(c)
    /\ pc' = [pc EXCEPT ![c] = "resolved"]
    /\ UNCHANGED << stream, readers, netVars, request, host_specific_client, result,
                    entry_at_start, built >>

\* The proxy directive of the request, if meta holds a string under "proxy"
\* (lines 80-81).
ProxyDirective(c) ==
    IF "proxy" \in DOMAIN request[c].meta
    THEN AsStr(request[c].meta["proxy"])
    ELSE None

\* Variant of ProxyFailed: the call goes on with the pooled client.
ProxyFailed_FallsBack(c, cause) ==
    /\ pc' = [pc EXCEPT ![c] = "send"]
    /\ net' = [net EXCEPT ![c] = cause]
    /\ UNCHANGED << client_to_use, host_specific_client, result, built >>

\* Proxy::all or the proxied client's build failed (lines 89, 92-94):
\* download returns the error.
ProxyFailed(c, cause) ==
    /\ Return(c, Err(FromReqwestError))
    /\ net' = [net EXCEPT ![c] = cause]
    /\ UNCHANGED built

\* Variant of OverrideClient: client_to_use is left as resolved.
OverrideClient_Pooled(c) == client_to_use[c]

\* client_to_use = new_client (line 90): the one-off client built at
\* lines 85-88.
OverrideClient(c) == ProxyClient(c)

\* The proxy override (lines 80-96).
ProxyOverride(c) ==
    /\ pc[c] = "resolved"
    /\ LET proxy_str == ProxyDirective(c) IN
        IF proxy_str = None
        THEN /\ pc' = [pc EXCEPT ![c] = "send"]
             /\ UNCHANGED << client_to_use, host_specific_client, result, net, built >>
        ELSE IF ProxyAll(proxy_str) = "Err"
        THEN ProxyFailed(c, "proxy_err")
        ELSE \E b \in BuildOutcomes :
            IF b = "Err"
            THEN ProxyFailed(c, "proxy_build_err")
            ELSE /\ client_to_use' = [client_to_use EXCEPT ![c] = OverrideClient(c)]
                 /\ built' = built \cup {ProxyClient(c)}
                 /\ pc' = [pc EXCEPT ![c] = "send"]
                 /\ UNCHANGED << host_specific_client, result, net >>
    /\ UNCHANGED << stream, tableVars, lockVars, res, sent_with, sends, request,
                    entry_at_start >>

\* Variant of SendFailed: a first failed send is tried again.
SendFailed_Retries(c) ==
    IF sends[c] = 0
    THEN UNCHANGED << pc, result, client_to_use, host_specific_client, res >>
    ELSE /\ Return(c, Err(FromReqwestError))
         /\ UNCHANGED res

\* send().await? on an error (line 114): download returns it.
SendFailed(c) ==
    /\ Return(c, Err(FromReqwestError))
    /\ UNCHANGED res

\* The request is built on client_to_use and sent (lines 98-114).
SendRequest(c) ==
    /\ pc[c] = "send"
    /\ sent_with' = [sent_with EXCEPT ![c] = client_to_use[c]]
    /\ sends' = [sends EXCEPT ![c] = @ + 1]
    /\ \E o \in SendOutcomesFor(request[c].url) :
        /\ net' = [net EXCEPT ![c] = o.io]
        /\ IF o.io = "headers"
           THEN /\ res' = [res EXCEPT ![c] =
                        [url |-> Url(request[c].url.host, o.path), status |-> o.status]]
                /\ pc' = [pc EXCEPT ![c] = "body"]
                /\ UNCHANGED << result, client_to_use, host_specific_client >>
           ELSE SendFailed(c)
    /\ UNCHANGED << stream, tableVars, lockVars, request, entry_at_start, built >>

\* Variant of MakeResponse: request_url takes the final URL.
MakeResponse_FinalUrl(c, response_url, status) ==
    [ url |-> response_url,
      status |-> status,
      request_url |-> response_url,
      meta |-> request[c].meta,
      cached |-> FALSE ]

\* Variant of MakeResponse: the proxy directive is taken out of the metadata.
MakeResponse_DropsProxy(c, response_url, status) ==
    [ url |-> response_url,
      status |-> status,
      request_url |-> request[c].url,
      meta |-> [k \in DOMAIN request[c].meta \ {"proxy"} |-> request[c].meta[k]],
      cached |-> FALSE ]

\* The Response assembled at lines 121-129.
MakeResponse(c, response_url, status) ==
    [ url |-> response_url,
      status |-> status,
      request_url |-> request[c].url,
      meta |-> request[c].meta,
      cached |-> FALSE ]

\* Variant of BodyResult: the Response is returned whatever the body read gave.
BodyResult_Unread(c, b) == Ok(MakeResponse(c, res[c].url, res[c].status))

\* bytes().await? (line 119) and the Ok(Response) that follows it
\* (lines 121-129): a failed read returns its error before any Response.
BodyResult(c, b) ==
    IF b = "body_ok"
    THEN Ok(MakeResponse(c, res[c].url, res[c].status))
    ELSE Err(FromReqwestError)

\* The body is read and the Response returned (lines 116-129).
ReadBody(c) ==
    /\ pc[c] = "body"
    /\ \E b \in BodyOutcomes :
        /\ net' = [net EXCEPT ![c] = b]
        /\ Return(c, BodyResult(c, b))
    /\ res' = [res EXCEPT ![c] = NoRes]
    /\ UNCHANGED << stream, tableVars, lockVars, sent_with, sends, request,
                    entry_at_start, built >>

Next ==
    \E c \in Calls :
        \/ \E r \in Requests : StartDownload(c, r) /\ UNCHANGED stream
        \/ AcquireRead(c)
        \/ LookupHost(c)
        \/ BuildHostClient(c)
        \/ AcquireWrite(c)
        \/ DoubleCheckInsert(c)
        \/ ProxyOverride(c)
        \/ SendRequest(c)
        \/ ReadBody(c)

Spec == Init /\ [][Next]_vars

\* The steps of call c after download has been entered.
Step(c) ==
    \/ AcquireRead(c)
    \/ LookupHost(c)
    \/ BuildHostClient(c)
    \/ AcquireWrite(c)
    \/ DoubleCheckInsert(c)
    \/ ProxyOverride(c)
    \/ SendRequest(c)
    \/ ReadBody(c)

\* ------------------------------------------- download_stream (traits.rs)

\* download_stream is called with request r and calls self.download(request)
\* (traits.rs lines 38-40).
StreamStart(c, r) ==
    /\ stream[c].state = "none"
    /\ StartDownload(c, r)
    /\ stream' = [stream EXCEPT ![c] =
            [@ EXCEPT !.state = "downloading", !.downloads = @ + 1]]

\* Variant of DownloadFailed: the error of download is reported as a failed
\* conversion.
DownloadFailed_AsIo(r) == Err(IoError)

\* The ? at traits.rs line 40: an Err of download is returned as it is.
DownloadFailed(r) == r

\* to_stream_response().await.map_err(...) (traits.rs lines 41-44).
ToStreamResponse(resp, conv) ==
    IF conv = "Ok" THEN OkStream(resp) ELSE Err(IoError)

\* download has returned to download_stream, which returns its error or
\* converts its Response (traits.rs lines 40-44).
StreamFinish(c) ==
    /\ stream[c].state = "downloading"
    /\ pc[c] = "done"
    /\ IF result[c].kind = "Err"
       THEN stream' = [stream EXCEPT ![c] =
                [@ EXCEPT !.state = "done", !.result = DownloadFailed(result[c])]]
       ELSE \E conv \in ConvOutcomes :
            stream' = [stream EXCEPT ![c] =
                [@ EXCEPT !.state = "done", !.conv = conv,
                          !.result = ToStreamResponse(result[c].response, conv)]]
    /\ UNCHANGED << tableVars, lockVars, netVars, pc, request,
                    host_specific_client, client_to_use, result,
                    entry_at_start, built >>

\* Every call is made through download_stream.
NextStream ==
    \E c \in Calls :
        \/ \E r \in Requests : StreamStart(c, r)
        \/ Step(c)
        \/ StreamFinish(c)

SpecStream == Init /\ [][NextStream]_vars

\* ------------------------------------------------------------------ claims

\* The host clients constructed so far (lines 167-174).
HostClientsBuilt == { k \in built : k.kind = "host" }

\* The (host, client) pairs ever inserted under host h.
RetainedFor(h) == { p \in retained : p[1] = h }

\* get_or_create_host_client has returned to call c (or download has).
Resolved(c) == pc[c] \in {"resolved", "send", "body", "done"}

\* The send of call c has been performed.
Sent(c) == sent_with[c] # NoClient

\* C1: however the lookups, constructions and insertions of concurrent calls
\* to one host interleave, at most one client is ever retained for a host:
\* every entry of the table is the only client ever inserted under its host,
\* and once a call has resolved its client the table holds an entry for its
\* host.
C1_OneRetainedClientPerHost ==
    /\ \A h \in Hosts : Cardinality(RetainedFor(h)) <= 1
    /\ \A h \in DOMAIN host_clients : RetainedFor(h) = {<< h, host_clients[h] >>}
    /\ \A h \in Hosts : h \notin DOMAIN host_clients => RetainedFor(h) = {}
    /\ \A c \in Calls : Resolved(c) => HostOf(c) \in DOMAIN host_clients

\* Two calls raced on one unseen host, each constructed a client, both have
\* resolved, and one entry is retained.
C1_Witness ==
    \E h \in Hosts :
        /\ \A c \in Calls : Resolved(c) /\ HostOf(c) = h
        /\ Cardinality(HostClientsBuilt) >= 2
        /\ DOMAIN host_clients = {h}
        /\ Cardinality(retained) = 1

\* C2: the client get_or_create_host_client returns is the one the table
\* holds for the host, also for a caller that built its own client and found
\* the key present on the re-check; so the sends of all calls to one host
\* that carry no proxy directive go through one and the same client.
C2_ReturnsRetainedClient ==
    /\ \A c \in Calls :
        pc[c] = "resolved" =>
            /\ client_to_use[c] # NoClient
            /\ client_to_use[c] = Get(host_clients, HostOf(c))
    /\ \A c, d \in Calls :
        ( /\ Sent(c) /\ Sent(d)
          /\ ProxyDirective(c) = None /\ ProxyDirective(d) = None
          /\ HostOf(c) = HostOf(d) )
        => sent_with[c] = sent_with[d]

\* A call built its own client, lost the race, and was handed the retained
\* client of the other call instead.
C2_Witness ==
    \E c \in Calls :
        /\ pc[c] = "resolved"
        /\ HostClient(c) \in built
        /\ client_to_use[c] # HostClient(c)
        /\ client_to_use[c] = host_clients[HostOf(c)]

\* C3: a request with a string under "proxy" whose proxy client was built is
\* sent with that one-off client, which is no value of the host table; every
\* value of the table is a host client built by get_or_create_host_client.
C3_ProxyClientNeverPooled ==
    /\ \A c \in Calls :
        Sent(c) /\ ProxyDirective(c) # None =>
            /\ sent_with[c] = ProxyClient(c)
            /\ \A h \in DOMAIN host_clients : host_clients[h] # sent_with[c]
    /\ \A h \in DOMAIN host_clients :
        /\ host_clients[h].kind = "host"
        /\ host_clients[h] \in HostClientsBuilt

\* A proxied request has been sent while the table holds an entry for its
\* host.
C3_Witness ==
    \E c \in Calls :
        /\ ProxyDirective(c) = GoodProxy
        /\ sent_with[c] = ProxyClient(c)
        /\ HostOf(c) \in DOMAIN host_clients

\* C4: when the proxy directive cannot be turned into a proxy, or the proxied
\* client cannot be built, download has returned the transport error kind and
\* performs no send, with no client at all.
C4_ProxyFailureFailsClosed ==
    \A c \in Calls :
        /\ net[c] \in {"proxy_err", "proxy_build_err"} =>
            /\ pc[c] = "done"
            /\ result[c] = Err("ReqwestError")
            /\ sends[c] = 0
            /\ ~Sent(c)
        /\ ( /\ Resolved(c)
             /\ ProxyDirective(c) # None
             /\ ProxyAll(ProxyDirective(c)) = "Err" )
           => sends[c] = 0 /\ pc[c] \in {"resolved", "done"}

\* A call failed on its proxy directive although its host has a pooled
\* client.
C4_Witness ==
    \E c \in Calls :
        /\ net[c] = "proxy_err"
        /\ result[c] = Err("ReqwestError")
        /\ HostOf(c) \in DOMAIN host_clients

\* C5: a download call performs at most one send; a call that returned a
\* Response performed exactly one, and a call whose send or body read failed
\* has returned an error after exactly one.
C5_AtMostOneSend ==
    \A c \in Calls :
        /\ sends[c] <= 1
        /\ result[c].kind = "Ok" => sends[c] = 1
        /\ net[c] \in {"connect_err", "bad_status", "body_err"} =>
            /\ pc[c] = "done"
            /\ result[c].kind = "Err"
            /\ sends[c] = 1

\* One call returned an error after a failed send, another after a failed
\* body read.
C5_Witness ==
    \E c, d \in Calls :
        /\ net[c] = "connect_err" /\ result[c].kind = "Err" /\ sends[c] = 1
        /\ net[d] = "body_err" /\ result[d].kind = "Err" /\ sends[d] = 1

\* C6: the request_url of a returned Response is the URL of the Request,
\* whatever URL the transport ended at.
C6_RequestUrlIsSubmitted ==
    \A c \in Calls :
        result[c].kind = "Ok" =>
            result[c].response.request_url = request[c].url

\* A Response whose final url differs from the submitted one.
C6_Witness ==
    \E c \in Calls :
        /\ result[c].kind = "Ok"
        /\ result[c].response.url # request[c].url
        /\ result[c].response.request_url = request[c].url

\* C7: a status outside the valid range makes download fail with the
\* invalid-status-code kind.
C7_InvalidStatusKind ==
    \A c \in Calls :
        net[c] = "bad_status" => result[c] = Err("StatusCodeError")

\* C8: a failed send is reported as the transport kind and a failed body
\* read, after the headers were received, as the body I/O kind and not as
\* the transport kind.
C8_BodyFailureIsIoKind ==
    \A c \in Calls :
        /\ net[c] = "connect_err" => result[c] = Err("ReqwestError")
        /\ net[c] = "body_err" => result[c] = Err("IoError")

\* No call to a host raced with the first call to that host: a call found an
\* entry when it began exactly if an earlier call was for the same host.
NoRace ==
    \A c \in Calls :
        pc[c] # "idle" =>
            entry_at_start[c] =
                (\E d \in Calls : d < c /\ HostOf(d) = HostOf(c))

C12_MetaPassedThrough ==
    \A c \in Calls :
        result[c].kind = "Ok" =>
            /\ DOMAIN result[c].response.meta = DOMAIN request[c].meta
            /\ \A k \in DOMAIN request[c].meta :
                result[c].response.meta[k] = request[c].meta[k]
            /\ result[c].response.cached = FALSE

\* A Response to a request that was sent through its proxy carries the proxy
\* directive.
C12_Witness ==
    \E c \in Calls :
        /\ result[c].kind = "Ok"
        /\ sent_with[c] = ProxyClient(c)
        /\ "proxy" \in DOMAIN result[c].response.meta
        /\ result[c].response.meta["proxy"] = JsonString(GoodProxy)

\* C13: a request whose URL has no host goes through host resolution like any
\* other, under the key "": it is handed the one client retained under "",
\* which all such requests share, and goes on to its send.
C13_HostlessSharesEmptyKey ==
    /\ \A c \in Calls :
        pc[c] # "idle" /\ request[c].url.host = None =>
            /\ HostOf(c) = ""
            /\ Resolved(c) => "" \in DOMAIN host_clients
            /\ pc[c] = "resolved" => client_to_use[c] = host_clients[""]
            /\ pc[c] = "done" => sends[c] = 1 /\ sent_with[c] = host_clients[""]
    /\ Cardinality(RetainedFor("")) <= 1

\* Every call was for a URL without a host, each built a client, and all
\* were sent through the one client retained under "".
C13_Witness ==
    /\ \A c \in Calls :
        /\ request[c].url.host = None
        /\ pc[c] = "done"
        /\ HostClient(c) \in built
        /\ sent_with[c] = host_clients[""]
    /\ DOMAIN host_clients = {""}

\* The calls that hold a guard of the host table's lock (line 45).
Holders == readers \cup (IF writer = 0 THEN {} ELSE {writer})

\* Call c has asked for a guard (line 160 or 177) and cannot be given it.
Blocked(c) ==
    /\ pc[c] \in {"read_wait", "write_wait"}
    /\ ~ ENABLED (AcquireRead(c) \/ AcquireWrite(c))

\* C14 as stated: no call waits for the host table's lock while a call for
\* a different host holds it.
C14_NoWaitAcrossHosts ==
    \A c \in Calls : \A d \in Holders :
        Blocked(c) /\ d # c => HostOf(d) = HostOf(c)

\* C14 amended: the table has one lock and calls for different hosts do wait
\* on it, but whenever a call waits, the lock is held by other calls only, and
\* each of them is inside its lookup or its re-check and insertion.
C14_WaitsOnlyForTableSections ==
    \A c \in Calls :
        Blocked(c) =>
            /\ Holders # {}
            /\ \A d \in Holders :
                /\ d # c
                /\ pc[d] \in {"read_held", "write_held"}

\* A call that built a client for one host waits for the write guard while
\* a call for another host is inside its lookup.
C14_Witness ==
    \E c \in Calls : \E d \in readers :
        /\ pc[c] = "write_wait"
        /\ Blocked(c)
        /\ HostOf(d) # HostOf(c)

\* C15: the host table only grows.  A step never removes a key and never
\* changes the client under a key, and every key it leaves in the table is
\* the host of a call that has been started.
C15_TableOnlyGrows ==
    [][ /\ \A h \in DOMAIN host_clients :
            /\ h \in DOMAIN host_clients'
            /\ host_clients'[h] = host_clients[h]
        /\ \A h \in DOMAIN host_clients' :
            \E c \in Calls : pc'[c] # "idle" /\ HostStr(request'[c].url) = h
      ]_vars

\* Two hosts were entered one after the other and both entries are still
\* there when every call has returned.
C15_Witness ==
    /\ Cardinality(DOMAIN host_clients) = 2
    /\ \A c \in Calls : pc[c] = "done"
    /\ \A h \in DOMAIN host_clients : host_clients[h] \in HostClientsBuilt

\* C16: the steps of one download call happen in the order resolve, proxy
\* override, send, body read, Response.  Nothing is sent and nothing returned
\* before the host client is resolved; a proxy override is in place before
\* the send; the body is read after the one send; and a Response is returned
\* only after the send and a completed body read.
C16_StepsInOrder ==
    \A c \in Calls :
        /\ ~ Resolved(c) =>
            /\ sends[c] = 0
            /\ client_to_use[c] = NoClient
            /\ result[c] = NoResult
        /\ pc[c] = "resolved" =>
            /\ sends[c] = 0
            /\ client_to_use[c] = host_clients[HostOf(c)]
            /\ result[c] = NoResult
        /\ pc[c] = "send" =>
            /\ sends[c] = 0
            /\ result[c] = NoResult
            /\ client_to_use[c] =
                IF ProxyDirective(c) = None
                THEN host_clients[HostOf(c)]
                ELSE ProxyClient(c)
        /\ pc[c] = "body" =>
            /\ sends[c] = 1
            /\ net[c] = "headers"
            /\ result[c] = NoResult
        /\ result[c].kind = "Ok" =>
            /\ pc[c] = "done"
            /\ sends[c] = 1
            /\ net[c] = "body_ok"

\* A call went through every step: it built and inserted the client of its
\* host, replaced it by a proxied client, sent once, read the body and
\* returned a Response.
C16_Witness ==
    \E c \in Calls :
        /\ pc[c] = "done"
        /\ Get(host_clients, HostOf(c)) = HostClient(c)
        /\ sent_with[c] = ProxyClient(c)
        /\ sends[c] = 1
        /\ net[c] = "body_ok"
        /\ result[c].kind = "Ok"

\* C17: no guard of the host table's lock is held while a client is built or
\* while a send or a body read is in progress.  A call holds the read guard
\* only during its lookup and the write guard only during its re-check and
\* insertion, so a call that is building, on the network or returned holds
\* nothing another call could wait for.
C17_NoGuardOutsideTableSections ==
    \A c \in Calls :
        /\ c \in readers => pc[c] = "read_held"
        /\ writer = c => pc[c] = "write_held"
        /\ pc[c] \in {"build", "write_wait", "resolved", "send", "body", "done"} =>
            c \notin Holders

\* One call is on the network, between its send and its body read, while
\* another holds the write guard, and is the only holder.
C17_Witness ==
    \E c \in Calls : \E d \in Calls :
        /\ pc[c] = "body"
        /\ pc[d] = "write_held"
        /\ Holders = {d}

\* C18: every download call that has returned, with a Response or with any
\* error, with or without a proxy directive, has left an entry for its host
\* in the host table, and the entry is a host client, never the proxied one.
C18_ReturnLeavesHostEntry ==
    \A c \in Calls :
        pc[c] = "done" =>
            /\ HostOf(c) \in DOMAIN host_clients
            /\ host_clients[HostOf(c)] \in HostClientsBuilt
            /\ << HostOf(c), host_clients[HostOf(c)] >> \in retained

\* One call returned the error of a failed proxy set-up and another the
\* error of a failed send or body read; each has left the client it built in
\* the table under its host.
C18_Witness ==
    \E c \in Calls : \E d \in Calls :
        /\ pc[c] = "done" /\ pc[d] = "done"
        /\ net[c] \in {"proxy_err", "proxy_build_err"}
        /\ net[d] \in {"connect_err", "body_err"}
        /\ result[c].kind = "Err" /\ result[d].kind = "Err"
        /\ Get(host_clients, HostOf(c)) = HostClient(c)
        /\ Get(host_clients, HostOf(d)) = HostClient(d)

\* The runtime polls every task that can make progress, the lock hands a
\* free guard to a waiter, and every send and body read completes or fails.
FairSpec == Spec /\ \A c \in Calls : WF_vars(Step(c))

\* C19: under fair scheduling every download call that has been entered
\* returns a Response or an error, and no call asks for the write guard
\* while it still holds the read guard.  A call that has been entered stays
\* entered, so "every entered call returns" is: from some point on, every
\* call is either not entered or has returned with a result.
C19_EveryCallReturns ==
    /\ [](\A c \in Calls : pc[c] \in {"write_wait", "write_held"} => c \notin readers)
    /\ [][\A c \in Calls : pc[c] # "idle" => pc'[c] # "idle"]_vars
    /\ <>[](\A c \in Calls :
            \/ pc[c] = "idle"
            \/ pc[c] = "done" /\ result[c] # NoResult)

\* Every call missed on the same unseen host, so each took the read guard
\* and then the write guard while the others did too, and all have returned.
C19_Witness ==
    /\ \A c \in Calls : pc[c] = "done" /\ result[c] # NoResult
    /\ Cardinality(HostClientsBuilt) = Cardinality(Calls)
    /\ Cardinality(DOMAIN host_clients) = 1

\* C11: a download_stream call that has returned made exactly one download
\* call.  If that download failed, download_stream returned the same error
\* and no stream; if it succeeded, the body had been read in full and the
\* stream was made from that Response, or, when the conversion failed, the
\* I/O error kind was returned.
C11_StreamFromOneDownload ==
    \A c \in Calls :
        stream[c].state = "done" =>
            /\ stream[c].downloads = 1
            /\ pc[c] = "done"
            /\ sends[c] <= 1
            /\ result[c].kind = "Err" =>
                /\ stream[c].result = result[c]
                /\ stream[c].conv = None
            /\ result[c].kind = "Ok" =>
                /\ net[c] = "body_ok"
                /\ stream[c].conv = "Ok" =>
                    stream[c].result = OkStream(result[c].response)
                /\ stream[c].conv = "Err" => stream[c].result = Err(IoError)
                /\ stream[c].conv \in ConvOutcomes
            /\ stream[c].result.kind = "Stream" => result[c].kind = "Ok"

\* One download_stream call returned the transport error of its download,
\* and another, whose download gave a Response, returned the I/O error kind
\* of a failed conversion.
C11_Witness ==
    \E c \in Calls : \E d \in Calls :
        /\ stream[c].state = "done" /\ stream[d].state = "done"
        /\ result[c] = Err(FromReqwestError)
        /\ stream[c].result = Err(FromReqwestError)
        /\ result[d].kind = "Ok"
        /\ stream[d].result = Err(IoError)

====
